---- MODULE Spec2Model ----
(***************************************************************************)
(* bintable: a directory-based binary layout for astropy tables.           *)
(* Model of bintable.write and bintable.read (src/bintable.py) over an     *)
(* explicit file system holding one dataset directory.                     *)
(***************************************************************************)
EXTENDS Integers, Sequences, FiniteSets, TLC

(* ------------------------------ bounds --------------------------------- *)

\* Largest number of columns of a table.
MaxCols == 2
\* Largest number of rows of a table.
MaxRows == 1
\* Largest number of write calls made, one after the other, on the path.
MaxWrites == 2

(* --------------------------- tables (inputs) --------------------------- *)

\* Element types of a column: two numeric dtypes, unicode text, byte text.
Kinds == {"int32", "float64", "U", "S"}

\* Numeric dtypes whose str() carries a byte-order marker: the byte order that
\* is not the machine's ("<i4" on a big-endian machine, ">i4" on a little-endian
\* one; the native order prints as "int32").
EndianKinds == {"<i4", ">i4"}

\* The dtype strings in which "<" occurs.
LtKinds == {"<i4"}

\* A column without a unit (col.unit is None).
NoUnit == "<None>"

\* Unit strings astropy.units.Unit() parses; any other string raises ValueError.
KnownUnits == {"Jy"}

\* The units a column may carry: none, a recognised one, an ad-hoc one.
Units == {NoUnit, "Jy", "foo"}

\* Column names by position; names are unique within a table.
ColNames == <<"c1", "c2", "c3", "c4">>

\* A name no table uses.
AbsentName == "zz"

\* The value stored in row r of the c-th column: all cells of a table differ.
Cell(c, r) == 10 * c + r

\* Table metadata: a mapping, here a sequence of (key type, key, value) items.
\* Python mappings may have non-string keys (kt = "int").
Metas ==
  { <<>>,
    << [kt |-> "str", k |-> "origin", v |-> 7] >>,
    << [kt |-> "int", k |-> "1", v |-> 7] >> }

\* The masks of a column of n rows, and the mask without an invalid entry.
Masks(n) == [1..n -> BOOLEAN]
Valid(n) == [r \in 1..n |-> FALSE]

\* The tables of nc columns and n rows whose columns take their kinds, masks
\* and units from the given sets. Only a masked table has invalid entries.
TablesOf(nc, n, kinds, masks, units, metas) ==
  { [ masked |-> m,
      meta   |-> mt,
      cols   |-> [ c \in 1..nc |->
                     [ name |-> ColNames[c],
                       kind |-> kd[c],
                       data |-> [ r \in 1..n |-> Cell(c, r) ],
                       mask |-> IF m THEN mk[c] ELSE Valid(n),
                       unit |-> un[c] ] ] ] :
      m \in BOOLEAN, mt \in metas,
      kd \in [1..nc -> kinds], un \in [1..nc -> units],
      mk \in [1..nc -> masks] }

\* The tables of n rows within the bounds: every combination of kinds and
\* masks without units or metadata, and every combination of units and
\* metadata on numeric and text columns without invalid entries.
TablesOfRows(n) ==
  UNION { TablesOf(nc, n, Kinds, Masks(n), {NoUnit}, {<<>>})
            \cup TablesOf(nc, n, {"int32", "U"}, {Valid(n)}, Units, Metas) :
          nc \in 0..MaxCols }

\* Every table within the bounds.
Tables == UNION { TablesOfRows(n) : n \in 0..MaxRows }

\* The table of a writer that is not in a call.
NoTable == [masked |-> FALSE, meta |-> <<>>, cols |-> <<>>]

(* --------------------- write: layout planning (pure) ------------------- *)

\* col.dtype.char in ("S", "U")
IsText(kind) == kind \in {"S", "U"}

\* The key of the datafiles dict: "text", or str(col.dtype).
StorageKey(kind) == IF IsText(kind) THEN "text" ELSE kind

\* The "name" of a datafiles entry.
FileName(key) == IF key = "text" THEN "data.text.json" ELSE "data." \o key \o ".npy"

\* name.endswith(".json")
IsJsonName(name) == name = "data.text.json"

\* Python values of a text column: col.data.tolist(). The data of a masked
\* table's column is a masked array, whose tolist() gives None at invalid rows.
PyNone == [t |-> "None", v |-> 0]
ToList(col, masked) ==
  [ r \in DOMAIN col.data |->
      IF masked /\ col.mask[r] THEN PyNone
      ELSE [t |-> IF col.kind = "S" THEN "bytes" ELSE "str", v |-> col.data[r]] ]

\* np.any(col.mask)
NpAny(mask) == \E r \in DOMAIN mask : mask[r]

\* Index of the datafiles entry with this key, 0 when there is none.
IndexOfKey(dfs, key) ==
  IF \E i \in DOMAIN dfs : dfs[i].key = key
  THEN CHOOSE i \in DOMAIN dfs : dfs[i].key = key
  ELSE 0

\* datafiles.setdefault(key, {"name": ..., "datas": [], "length": 0})
SetDefault(dfs, key) ==
  IF IndexOfKey(dfs, key) # 0 THEN dfs
  ELSE Append(dfs, [key |-> key, name |-> FileName(key), datas |-> <<>>, length |-> 0])

\* The accumulators before the first column.
EmptyPlan == [datafiles |-> <<>>, columns |-> <<>>, maskdatas |-> <<>>, masklength |-> 0]

\* The offset a column gets in its backing file: the file's running length.
DataOffsetZero(df) == 0
DataOffset(df) == df.length

\* The offset a column's mask gets: the running length of the mask buffer.
MaskOffsetPerFile(acc, df) == df.length
MaskOffset(acc, df) == acc.masklength

\* Whether a column's mask goes to the mask buffer.
HasMaskAll(table, col) == table.masked
HasMask(table, col) == table.masked /\ NpAny(col.mask)

\* One iteration of the loop over table.colnames.
PlanColumn(acc, table, col) ==
  LET key  == StorageKey(col.kind)
      dfs  == SetDefault(acc.datafiles, key)
      j    == IndexOfKey(dfs, key)
      df   == dfs[j]
      i    == DataOffset(df)
      n    == Len(col.data)
      newdatas == IF IsJsonName(df.name)
                  THEN df.datas \o ToList(col, table.masked)
                  ELSE Append(df.datas, col.data)
      df2  == [df EXCEPT !.length = df.length + n, !.datas = newdatas]
      base == [name |-> col.name, file |-> df.name, offset |-> i, length |-> n]
      hm   == HasMask(table, col)
      c1   == IF hm THEN base @@ ("maskoffset" :> MaskOffset(acc, df)) ELSE base
      c2   == IF col.unit # NoUnit THEN c1 @@ ("unit" :> col.unit) ELSE c1
  IN  [ datafiles  |-> [dfs EXCEPT ![j] = df2],
        columns    |-> Append(acc.columns, c2),
        maskdatas  |-> IF hm THEN Append(acc.maskdatas, col.mask) ELSE acc.maskdatas,
        masklength |-> IF hm THEN acc.masklength + n ELSE acc.masklength ]

\* assert "<" not in dt, for a column that is not text: the exception the
\* loop over the columns raises, "" when it runs through.
PlanError(table) ==
  IF \E c \in DOMAIN table.cols :
       ~IsText(table.cols[c].kind) /\ table.cols[c].kind \in LtKinds
  THEN "AssertionError" ELSE ""

RECURSIVE PlanFrom(_, _, _)
PlanFrom(acc, table, k) ==
  IF k > Len(table.cols) THEN acc
  ELSE PlanFrom(PlanColumn(acc, table, table.cols[k]), table, k + 1)

\* The state of write's local variables after the loop over the columns.
Plan(table) == PlanFrom(EmptyPlan, table, 1)

\* np.concatenate(chunks)
RECURSIVE Concatenate(_)
Concatenate(chunks) ==
  IF chunks = <<>> THEN <<>> ELSE Head(chunks) \o Concatenate(Tail(chunks))

(* ------------------------------ file system ---------------------------- *)

\* The names a file of the directory may have: the temporary and the committed
\* manifest, the mask file, one backing file per storage key, and a file that
\* is no part of any dataset.
TmpManifestFinal == "bintable.json"
TmpManifest == "bintable.json_"
Manifest == "bintable.json"
MaskFile == "mask.npy"
Foreign == "notes.txt"
Files ==
  {TmpManifest, Manifest, MaskFile, Foreign} \cup {FileName(StorageKey(k)) : k \in Kinds \cup EndianKinds}

\* A file that does not exist; a file opened for writing (created or truncated)
\* and not yet written and closed; a file written and closed.
Absent == [st |-> "absent"]
Partial == [st |-> "partial"]
Complete(body) == [st |-> "complete", body |-> body]

Exists(f) == f.st # "absent"

\* json.dumps of the metadata mapping: every key becomes a string.
JsonMeta(meta) == [i \in DOMAIN meta |-> [meta[i] EXCEPT !.kt = "str"]]

\* json.dumps({"meta": ..., "masked": ..., "columns": columns}, indent=2)
ManifestBody(table, plan) ==
  [kind |-> "manifest", meta |-> JsonMeta(table.meta), masked |-> table.masked,
   columns |-> plan.columns]

\* np.save(path, array): an array file holds a dtype and a flat array.
NpyBody(dtype, elems) == [kind |-> "npy", dtype |-> dtype, elems |-> elems]

\* json.dumps(list) raises TypeError on a bytes object.
JsonSerializable(datas) == \A i \in DOMAIN datas : datas[i].t # "bytes"

\* json.dumps(df["datas"], indent=0): strings stay strings, None becomes null.
JsonBody(datas) ==
  [kind |-> "json",
   vals |-> [i \in DOMAIN datas |->
               IF datas[i].t = "None" THEN [t |-> "null", v |-> 0] ELSE datas[i]]]

\* What write stores in the backing file of a datafiles entry.
DataBody(df) ==
  IF IsJsonName(df.name) THEN JsonBody(df.datas)
  ELSE NpyBody(df.key, Concatenate(df.datas))

(* -------------------------------- state --------------------------------- *)

VARIABLES
  dirExists,  \* whether the target path exists (as a directory)
  fs,         \* the files of the directory: name -> Absent, Partial or Complete
  w,          \* per writer: the position and the local variables of its write call
  calls,      \* the number of write calls begun
  prev,       \* how the write call before the current one ended
  rd          \* the outcome of the last read calls

vars == <<dirExists, fs, w, calls, prev, rd>>

\* The processes that may call write.
Writers == {1}

\* The positions of a write call that has ended.
Ended == {"done", "failed", "crashed"}

\* The positions at which the next step is an I/O operation that can fail.
IoSteps ==
  {"mkdir", "open_manifest", "write_manifest", "open_mask", "write_mask",
   "open_data", "write_data", "rename"}

\* The positions inside a write call.
Running == {"exists", "exists_tmp"} \cup IoSteps

NoFiles == [f \in Files |-> Absent]

IdleWriter ==
  [pc |-> "idle", table |-> NoTable, plan |-> EmptyPlan, idx |-> 0, err |-> "",
   at |-> "", fresh |-> FALSE, dir0 |-> FALSE, fs0 |-> NoFiles, open |-> {},
   alone |-> TRUE]

NoPrev == [out |-> "idle", at |-> "", fresh |-> FALSE, err |-> ""]

NoRead == [st |-> "none"]

(* ------------------------------- write --------------------------------- *)

\* The position at the i-th turn of "for dt, df in datafiles.items()".
DataPcNone(plan, i) == "rename"
DataPc(plan, i) == IF i <= Len(plan.datafiles) THEN "open_data" ELSE "rename"

\* The position after the temporary manifest is written: "if maskdatas:".
AfterManifestCommit(plan) == "rename"
AfterManifest(plan) == IF plan.maskdatas # <<>> THEN "open_mask" ELSE DataPc(plan, 1)

\* A call ends with an exception: the with block, or np.save, closes the file
\* it was writing on the way out.
Raise(p, e) ==
  [w EXCEPT ![p].pc = "failed", ![p].err = e, ![p].at = w[p].pc, ![p].open = {}]

\* Whether a call of another process is in progress.
OthersRunning(p) == \E q \in DOMAIN w : q # p /\ w[q].pc \in Running

\* write(table, path) is called; the loop over the columns fills the
\* accumulators, or fails on its assertion, before the file system is touched.
\* Each call keeps note of whether another call ran while it did.
W_Begin(p, table) ==
  /\ w[p].pc \in Ended \cup {"idle"}
  /\ w' = [q \in DOMAIN w |->
             IF q # p
             THEN [w[q] EXCEPT !.alone = w[q].alone /\ w[q].pc \notin Running]
             ELSE IF PlanError(table) # ""
             THEN [pc |-> "failed", table |-> table, plan |-> EmptyPlan, idx |-> 1,
                   err |-> PlanError(table), at |-> "plan", fresh |-> FALSE,
                   dir0 |-> dirExists, fs0 |-> fs, open |-> {},
                   alone |-> ~OthersRunning(p)]
             ELSE [pc |-> "exists", table |-> table, plan |-> Plan(table), idx |-> 1,
                   err |-> "", at |-> "", fresh |-> FALSE, dir0 |-> dirExists,
                   fs0 |-> fs, open |-> {}, alone |-> ~OthersRunning(p)]]
  /\ prev' = [out |-> w[p].pc, at |-> w[p].at, fresh |-> w[p].fresh, err |-> w[p].err]
  /\ calls' = calls + 1
  /\ UNCHANGED <<dirExists, fs, rd>>

\* if os.path.exists(path):
W_Exists(p) ==
  /\ w[p].pc = "exists"
  /\ w' = [w EXCEPT ![p].pc = IF dirExists THEN "exists_tmp" ELSE "mkdir",
                    ![p].fresh = ~dirExists]
  /\ UNCHANGED <<dirExists, fs, calls, prev, rd>>

\* The guard of the raise: the temporary manifest is looked up (twice).
LooksInProgressAny(files) == \E f \in Files : Exists(files[f])
LooksInProgress(files) == Exists(files[TmpManifest]) \/ Exists(files[TmpManifest])

\* if not exists(bintable.json_) and not exists(bintable.json_): raise FileExistsError
W_ExistsTmp(p) ==
  /\ w[p].pc = "exists_tmp"
  /\ w' = IF LooksInProgress(fs)
          THEN [w EXCEPT ![p].pc = "open_manifest"]
          ELSE Raise(p, "FileExistsError")
  /\ UNCHANGED <<dirExists, fs, calls, prev, rd>>

\* else: os.mkdir(path), which raises FileExistsError when the path exists.
W_Mkdir(p) ==
  /\ w[p].pc = "mkdir"
  /\ IF dirExists
     THEN /\ w' = Raise(p, "FileExistsError")
          /\ UNCHANGED dirExists
     ELSE /\ w' = [w EXCEPT ![p].pc = "open_manifest"]
          /\ dirExists' = TRUE
  /\ UNCHANGED <<fs, calls, prev, rd>>

\* open(mode "w") and np.save create the file or truncate it.
OpenForWrite(files, name) == [files EXCEPT ![name] = Partial]

\* with open(os.path.join(path, "bintable.json_"), "w") as fp:
W_OpenManifest(p) ==
  /\ w[p].pc = "open_manifest"
  /\ fs' = OpenForWrite(fs, TmpManifest)
  /\ w' = [w EXCEPT ![p].pc = "write_manifest", ![p].open = {TmpManifest}]
  /\ UNCHANGED <<dirExists, calls, prev, rd>>

\* fp.write(json.dumps({...}, indent=2)), and the file is closed.
W_WriteManifest(p) ==
  /\ w[p].pc = "write_manifest"
  /\ fs' = [fs EXCEPT ![TmpManifest] = Complete(ManifestBody(w[p].table, w[p].plan))]
  /\ w' = [w EXCEPT ![p].pc = AfterManifest(w[p].plan), ![p].open = {}]
  /\ UNCHANGED <<dirExists, calls, prev, rd>>

\* if maskdatas: np.save(mask.npy, ...) opens the file,
W_OpenMask(p) ==
  /\ w[p].pc = "open_mask"
  /\ fs' = OpenForWrite(fs, MaskFile)
  /\ w' = [w EXCEPT ![p].pc = "write_mask", ![p].open = {MaskFile}]
  /\ UNCHANGED <<dirExists, calls, prev, rd>>

\* and writes np.concatenate(maskdatas) to it.
W_WriteMask(p) ==
  /\ w[p].pc = "write_mask"
  /\ fs' = [fs EXCEPT ![MaskFile] =
              Complete(NpyBody("bool", Concatenate(w[p].plan.maskdatas)))]
  /\ w' = [w EXCEPT ![p].pc = DataPc(w[p].plan, 1), ![p].open = {}]
  /\ UNCHANGED <<dirExists, calls, prev, rd>>

\* for dt, df in datafiles.items(): the backing file of df is opened,
W_OpenData(p) ==
  /\ w[p].pc = "open_data"
  /\ fs' = OpenForWrite(fs, w[p].plan.datafiles[w[p].idx].name)
  /\ w' = [w EXCEPT ![p].pc = "write_data",
                    ![p].open = {w[p].plan.datafiles[w[p].idx].name}]
  /\ UNCHANGED <<dirExists, calls, prev, rd>>

\* and written: json.dumps of the text values (TypeError on bytes), or np.save
\* of the concatenated arrays.
W_WriteData(p) ==
  /\ w[p].pc = "write_data"
  /\ LET df == w[p].plan.datafiles[w[p].idx] IN
       IF IsJsonName(df.name) /\ ~JsonSerializable(df.datas)
       THEN /\ w' = Raise(p, "TypeError")
            /\ UNCHANGED fs
       ELSE /\ fs' = [fs EXCEPT ![df.name] = Complete(DataBody(df))]
            /\ w' = [w EXCEPT ![p].idx = w[p].idx + 1,
                              ![p].pc = DataPc(w[p].plan, w[p].idx + 1),
                              ![p].open = {}]
  /\ UNCHANGED <<dirExists, calls, prev, rd>>

\* The files after os.rename(src, dst): dst is replaced by src.
RenameCopy(files, src, dst) == [files EXCEPT ![dst] = files[src]]
Rename(files, src, dst) == [files EXCEPT ![dst] = files[src], ![src] = Absent]

\* os.rename(bintable.json_, bintable.json): the commit point.
W_Rename(p) ==
  /\ w[p].pc = "rename"
  /\ IF Exists(fs[TmpManifest])
     THEN /\ fs' = Rename(fs, TmpManifest, Manifest)
          /\ w' = [w EXCEPT ![p].pc = "done"]
     ELSE /\ w' = Raise(p, "FileNotFoundError")
          /\ UNCHANGED fs
  /\ UNCHANGED <<dirExists, calls, prev, rd>>

\* The I/O operation a call is about to make fails with OSError (disk full,
\* permission denied) without effect; a file being written stays as it is.
W_IoError(p) ==
  /\ w[p].pc \in IoSteps
  /\ w' = Raise(p, "OSError")
  /\ UNCHANGED <<dirExists, fs, calls, prev, rd>>

\* The process is killed inside a call; its open files die with it.
W_Crash(p) ==
  /\ w[p].pc \in Running
  /\ w' = [w EXCEPT ![p].pc = "crashed", ![p].at = w[p].pc, ![p].open = {}]
  /\ UNCHANGED <<dirExists, fs, calls, prev, rd>>

\* The steps of a write call to a path that does not exist.
W_FreshStep(p) ==
  \/ W_Exists(p)
  \/ W_Mkdir(p)
  \/ W_OpenManifest(p)
  \/ W_WriteManifest(p)
  \/ W_OpenMask(p)
  \/ W_WriteMask(p)
  \/ W_OpenData(p)
  \/ W_WriteData(p)
  \/ W_Rename(p)

\* The steps of a write call that is not disturbed.
W_Step(p) ==
  \/ W_ExistsTmp(p)
  \/ W_FreshStep(p)

(* -------------------------------- read --------------------------------- *)

\* The only_columns argument: None, or a list of names.
AllColumns == [given |-> FALSE, names |-> <<>>]
Only(names) == [given |-> TRUE, names |-> names]

\* a[offset : offset + length] on a sequence of n elements: Python clamps a
\* slice to the sequence.
Min(a, b) == IF a < b THEN a ELSE b
Slice(seq, offset, length) == SubSeq(seq, offset + 1, Min(offset + length, Len(seq)))

\* The elements a backing file gives when loaded: np.load gives an array of the
\* file's dtype, json.load a list of str and None.
Loaded(body) ==
  IF body.kind = "npy"
  THEN [i \in DOMAIN body.elems |-> [t |-> body.dtype, v |-> body.elems[i]]]
  ELSE [i \in DOMAIN body.vals |->
          IF body.vals[i].t = "null" THEN PyNone ELSE body.vals[i]]

\* astropy.units.Unit(s), or astropy.units.def_unit(s) when s is not recognised.
ResolveUnit(s) == [name |-> s, defined |-> s \notin KnownUnits]

\* The local variables of read before the loop over the columns.
ReadStart ==
  [err |-> "", names |-> <<>>, data |-> <<>>, backing |-> {}, maskopen |-> FALSE,
   opened |-> <<Manifest>>, maps |-> {}, units |-> {}, unitcache |-> {}]

\* The files after open(name) (mode "r") or np.load(name, mmap_mode="r"): the
\* file is neither created nor truncated nor written.
OpenForReadTruncating(files, name) == OpenForWrite(files, name)
OpenForRead(files, name) == files

\* The files after the files of a log were opened for reading, one by one.
RECURSIVE AfterOpens(_, _, _)
AfterOpens(files, log, k) ==
  IF k > Len(log) THEN files
  ELSE AfterOpens(OpenForRead(files, log[k]), log, k + 1)

\* What opening a file for reading raises, "" when it can be loaded.
OpenError(f) ==
  IF f.st = "absent" THEN "FileNotFoundError"
  ELSE IF f.st = "partial" THEN "DecodeError" ELSE ""

\* Whether the backing file of a column must be opened: it is not cached yet.
NeedsOpenAlways(acc, file) == TRUE
NeedsOpen(acc, file) == file \notin acc.backing

\* The mask of a column read back: the slice of the mask buffer when the entry
\* has a maskoffset, no invalid entry otherwise.
ColumnMaskDefaultZero(files, column, n) ==
  IF files[MaskFile].st = "complete"
  THEN Slice(files[MaskFile].body.elems,
             IF "maskoffset" \in DOMAIN column THEN column.maskoffset ELSE 0, n)
  ELSE [r \in 1..n |-> FALSE]
ColumnMask(files, column, n) ==
  IF "maskoffset" \in DOMAIN column
  THEN Slice(files[MaskFile].body.elems, column.maskoffset, column.length)
  ELSE [r \in 1..n |-> FALSE]

\* One iteration of the loop over the selected column entries.
ReadColumn(acc, files, column) ==
  LET open1 == NeedsOpen(acc, column.file)
      e1    == IF open1 THEN OpenError(files[column.file]) ELSE ""
      log1  == IF open1 THEN Append(acc.opened, column.file) ELSE acc.opened
      hasm  == "maskoffset" \in DOMAIN column
      open2 == hasm /\ ~acc.maskopen
      e2    == IF open2 THEN OpenError(files[MaskFile]) ELSE ""
      log2  == IF open2 THEN Append(log1, MaskFile) ELSE log1
      maps1 == IF open1 /\ ~IsJsonName(column.file)
               THEN acc.maps \cup {column.file} ELSE acc.maps
      maps2 == IF open2 THEN maps1 \cup {MaskFile} ELSE maps1
  IN  IF e1 # "" THEN [acc EXCEPT !.err = e1, !.opened = log1]
      ELSE IF e2 # "" THEN [acc EXCEPT !.err = e2, !.opened = log2, !.maps = maps1]
      ELSE
        LET a    == Slice(Loaded(files[column.file].body), column.offset, column.length)
            m    == ColumnMask(files, column, Len(a))
            hasu == "unit" \in DOMAIN column
        IN  IF Len(m) # Len(a)
            THEN [acc EXCEPT !.err = "MaskError", !.opened = log2, !.maps = maps2]
            ELSE [ err       |-> "",
                   names     |-> Append(acc.names, column.name),
                   data      |-> Append(acc.data, [vals |-> a, mask |-> m]),
                   backing   |-> acc.backing \cup {column.file},
                   maskopen  |-> acc.maskopen \/ hasm,
                   opened    |-> log2,
                   maps      |-> maps2,
                   units     |-> IF hasu
                                 THEN {u \in acc.units : u.col # column.name}
                                      \cup {[col |-> column.name,
                                             unit |-> ResolveUnit(column.unit)]}
                                 ELSE acc.units,
                   unitcache |-> IF hasu THEN acc.unitcache \cup {column.unit}
                                 ELSE acc.unitcache ]

RECURSIVE ReadFrom(_, _, _, _)
ReadFrom(acc, files, columns, k) ==
  IF k > Len(columns) \/ acc.err # "" THEN acc
  ELSE ReadFrom(ReadColumn(acc, files, columns[k]), files, columns, k + 1)

\* n in coldict, for coldict = {c["name"]: c for c in columns}
HasName(columns, n) == \E i \in DOMAIN columns : columns[i].name = n

\* coldict[n]: the entry of that name (the last one, were there several).
EntryOfFirst(columns, n) == columns[1]
EntryOf(columns, n) ==
  columns[CHOOSE i \in DOMAIN columns :
            /\ columns[i].name = n
            /\ \A j \in DOMAIN columns : columns[j].name = n => j <= i]

\* The column entries a read call goes through: all of them, or
\* [coldict[n] for n in only_columns], which raises KeyError on a name that
\* is no entry's.
SelectedAll(columns, only) == [err |-> "", columns |-> columns]
SelectedSkipMissing(columns, only) ==
  [err |-> "",
   columns |-> IF only.given
               THEN LET present == SelectSeq(only.names, LAMBDA n : HasName(columns, n))
                    IN  [i \in DOMAIN present |-> EntryOf(columns, present[i])]
               ELSE columns]
Selected(columns, only) ==
  IF ~only.given THEN [err |-> "", columns |-> columns]
  ELSE IF \E i \in DOMAIN only.names : ~HasName(columns, only.names[i])
  THEN [err |-> "KeyError", columns |-> <<>>]
  ELSE [err |-> "",
        columns |-> [i \in DOMAIN only.names |-> EntryOf(columns, only.names[i])]]

\* The unit a column of the table read gets: table.columns[k].unit = u.
UnitOf(units, name) ==
  IF \E u \in units : u.col = name
  THEN (CHOOSE u \in units : u.col = name).unit.name
  ELSE NoUnit

\* astropy.table.Table(names=..., data=...) refuses two columns of one name.
Distinct(names) == \A i, j \in DOMAIN names : names[i] = names[j] => i = j

\* The outcome of a call that raises: the exception, the files opened and the
\* memory maps np.load made before it.
ReadFails(e, log, maps) == [ok |-> FALSE, err |-> e, opened |-> log, maps |-> maps]

\* read(path, only_columns=only) on the directory as it is: the table returned
\* or the exception raised, the files opened in the order they were, and the
\* memory maps made. The manifest and the text file are read inside a with
\* block, which closes them; the .npy files are mapped and never closed.
Read(dir, files, only) ==
  IF ~dir \/ files[Manifest].st = "absent" THEN ReadFails("FileNotFoundError", <<>>, {})
  ELSE IF files[Manifest].st = "partial" THEN ReadFails("DecodeError", <<Manifest>>, {})
  ELSE
    LET bintable == files[Manifest].body
        sel      == Selected(bintable.columns, only)
    IN  IF sel.err # "" THEN ReadFails(sel.err, <<Manifest>>, {})
        ELSE
          LET acc == ReadFrom(ReadStart, files, sel.columns, 1)
          IN  IF acc.err # "" THEN ReadFails(acc.err, acc.opened, acc.maps)
              ELSE IF ~Distinct(acc.names) THEN ReadFails("ValueError", acc.opened, acc.maps)
              ELSE [ ok     |-> TRUE,
                     err    |-> "",
                     opened |-> acc.opened,
                     maps   |-> acc.maps,
                     table  |->
                       [ masked |-> bintable.masked,
                         meta   |-> bintable.meta,
                         cols   |-> [ i \in DOMAIN acc.names |->
                                       [ name |-> acc.names[i],
                                         vals |-> acc.data[i].vals,
                                         mask |-> acc.data[i].mask,
                                         unit |-> UnitOf(acc.units, acc.names[i]) ] ] ] ]

\* The memory maps that may still be mapped when a call has ended. The table
\* returned is built with copy=False: its columns are views of the maps and
\* keep every one of them. Nothing unmaps them when the call raises: they go
\* when the last reference does, which the traceback of the exception may hold.
HeldAfter(res) == IF res.ok THEN {res.maps} ELSE {{}, res.maps}

\* read(path) is called once the write call has ended.
R_Full ==
  /\ \A p \in Writers : w[p].pc \in Ended
  /\ rd.st = "none"
  /\ LET res == Read(dirExists, fs, AllColumns) IN
       /\ \E held \in HeldAfter(res) :
            rd' = [st |-> "full", full |-> res, held |-> held]
       /\ fs' = AfterOpens(fs, res.opened, 1)
  /\ UNCHANGED <<dirExists, w, calls, prev>>

\* read(path, only_columns=names) is called after it.
R_Only(names) ==
  /\ rd.st = "full"
  /\ LET res == Read(dirExists, fs, Only(names)) IN
       /\ \E held \in HeldAfter(res) :
            rd' = [st |-> "only", full |-> rd.full, names |-> names, sel |-> res,
                   held |-> held]
       /\ fs' = AfterOpens(fs, res.opened, 1)
  /\ UNCHANGED <<dirExists, w, calls, prev>>

(* ------------------ the write protocol on one directory ---------------- *)

\* A column of n rows.
MkCol(name, c, kind, n, mask, unit) ==
  [name |-> name, kind |-> kind, data |-> [r \in 1..n |-> Cell(c, r)],
   mask |-> mask, unit |-> unit]

\* The tables written in the protocol runs: what the protocol does with a table
\* depends on the files of its plan only. A masked table with a numeric, a text
\* and a masked float column with a unit; an unmasked numeric table; a table
\* without columns; a table with a byte-string column.
ScenarioTable ==
  [masked |-> TRUE, meta |-> <<>>,
   cols |-> << MkCol("id", 1, "int32", 3, <<FALSE, FALSE, FALSE>>, NoUnit),
               MkCol("name", 2, "U", 3, <<FALSE, FALSE, FALSE>>, NoUnit),
               MkCol("flux", 3, "float64", 3, <<FALSE, FALSE, TRUE>>, "Jy") >>]
PlainTable ==
  [masked |-> FALSE, meta |-> <<>>,
   cols |-> << MkCol("x", 1, "int32", 2, <<FALSE, FALSE>>, NoUnit) >>]
BytesTable ==
  [masked |-> FALSE, meta |-> <<>>,
   cols |-> << MkCol("s", 1, "S", 2, <<FALSE, FALSE>>, NoUnit) >>]
ProtoTables == {ScenarioTable, PlainTable, NoTable, BytesTable}

\* The target path before the first call: absent, an empty directory, or a
\* directory holding a file that is no part of a dataset.
InitDirs ==
  { [dir |-> FALSE, files |-> NoFiles],
    [dir |-> TRUE, files |-> NoFiles],
    [dir |-> TRUE, files |-> [NoFiles EXCEPT ![Foreign] = Complete([kind |-> "other"])]] }

Init ==
  /\ \E d \in InitDirs : dirExists = d.dir /\ fs = d.files
  /\ w = [p \in Writers |-> IdleWriter]
  /\ calls = 0
  /\ prev = NoPrev
  /\ rd = NoRead

Next ==
  \/ calls < MaxWrites /\ \E t \in ProtoTables : W_Begin(1, t)
  \/ W_Step(1)
  \/ W_IoError(1)
  \/ W_Crash(1)

\* Write calls made one after the other on one path, each of which may fail
\* on I/O or be killed at any step.
Spec == Init /\ [][Next]_vars

(* ------------------- one write, then a read of it ---------------------- *)

InitRT ==
  /\ dirExists = FALSE
  /\ fs = NoFiles
  /\ w = [p \in Writers |-> IdleWriter]
  /\ calls = 0
  /\ prev = NoPrev
  /\ rd = NoRead

NextRT ==
  \/ calls = 0 /\ \E t \in Tables : W_Begin(1, t)
  \/ W_FreshStep(1)
  \/ R_Full

\* A table is written to a path that does not exist, undisturbed, and read back.
SpecRT == InitRT /\ [][NextRT]_vars

(* ---------------- one write, then reads by selection ------------------- *)

\* Largest number of names in only_columns.
MaxSel == 2

\* The lists of at most n elements of S.
RECURSIVE ListsOf(_, _)
ListsOf(S, n) ==
  IF n = 0 THEN {<<>>}
  ELSE LET shorter == ListsOf(S, n - 1)
       IN  shorter \cup {Append(l, x) : l \in {l \in shorter : Len(l) = n - 1}, x \in S}

\* The names of the columns of a table.
NamesOf(table) == {table.cols[c].name : c \in DOMAIN table.cols}

\* The values of only_columns tried: lists of names of the table and of a name
\* it does not have.
Selections(table) == ListsOf(NamesOf(table) \cup {AbsentName}, MaxSel)

\* The tables whose write commits a dataset: those of MaxRows rows without a
\* byte-string column.
ReadTables ==
  { t \in TablesOfRows(MaxRows) : \A c \in DOMAIN t.cols : t.cols[c].kind # "S" }

NextRead ==
  \/ calls = 0 /\ \E t \in ReadTables : W_Begin(1, t)
  \/ W_FreshStep(1)
  \/ R_Full
  \/ \E names \in Selections(w[1].table) : R_Only(names)

\* A table is written to a path that does not exist, undisturbed; the dataset
\* is read in full and then with only_columns.
SpecRead == InitRT /\ [][NextRead]_vars

(* -------------- one write that may fail, then reads -------------------- *)

NextIO ==
  \/ calls = 0 /\ \E t \in ProtoTables : W_Begin(1, t)
  \/ W_FreshStep(1)
  \/ W_IoError(1)
  \/ W_Crash(1)
  \/ R_Full
  \/ \E names \in Selections(w[1].table) : R_Only(names)

\* A table is written to a path that does not exist, the call completing,
\* failing on I/O or being killed; the path is then read in full and with
\* only_columns, whatever the call left there.
SpecIO == InitRT /\ [][NextIO]_vars

(* ------------- one write of a table with byte-order markers ------------ *)

\* The tables whose columns are native numeric, text, or numeric of a byte
\* order that shows in str(col.dtype).
EndianTables ==
  UNION { TablesOf(nc, n, {"int32", "U"} \cup EndianKinds, Masks(n), {NoUnit}, {<<>>}) :
          nc \in 1..MaxCols, n \in 0..MaxRows }

NextEndian ==
  \/ calls = 0 /\ \E t \in EndianTables : W_Begin(1, t)
  \/ W_FreshStep(1)

\* Such a table is written to a path that does not exist, undisturbed.
SpecEndian == InitRT /\ [][NextEndian]_vars

(* ------------------ two processes write to one path -------------------- *)

\* Two processes, each making one write call.
Concurrent == {1, 2}

InitConc ==
  /\ dirExists = FALSE
  /\ fs = NoFiles
  /\ w = [p \in Concurrent |-> IdleWriter]
  /\ calls = 0
  /\ prev = NoPrev
  /\ rd = NoRead

NextConc ==
  \E p \in Concurrent :
    \/ w[p].pc = "idle" /\ \E t \in ProtoTables : W_Begin(p, t)
    \/ W_Step(p)

\* Each process calls write once on the same path, which does not exist at
\* first; the steps of the two calls interleave in every way, one after the
\* other included. No I/O operation fails and no process is killed.
SpecConc == InitConc /\ [][NextConc]_vars

(* ------------------------------- claims -------------------------------- *)

\* The files a manifest references: the backing file of every column entry,
\* and the mask file when an entry has a maskoffset.
Referenced(m) ==
  {m.columns[i].file : i \in DOMAIN m.columns}
    \cup (IF \E i \in DOMAIN m.columns : "maskoffset" \in DOMAIN m.columns[i]
          THEN {MaskFile} ELSE {})

\* The manifests written so far, temporary or committed.
ManifestsWritten ==
  {fs[f].body : f \in {g \in {TmpManifest, Manifest} : fs[g].st = "complete"}}

\* The number of elements a backing file or the mask file holds.
FileLen(f) == IF f.body.kind = "json" THEN Len(f.body.vals) ELSE Len(f.body.elems)

Max(S) == CHOOSE x \in S : \A y \in S : y <= x

\* The entries before the i-th that reference the backing file of the i-th.
EarlierInFile(cols, i) == {j \in 1..(i - 1) : cols[j].file = cols[i].file}
LaterInFile(cols, i) == {j \in (i + 1)..Len(cols) : cols[j].file = cols[i].file}

\* The ranges of the entries of one backing file are disjoint, and in table
\* order they start at 0 and each starts where the one before it ends.
DataLayout(cols) ==
  \A i \in DOMAIN cols :
    /\ cols[i].offset =
         IF EarlierInFile(cols, i) = {} THEN 0
         ELSE LET j == Max(EarlierInFile(cols, i)) IN cols[j].offset + cols[j].length
    /\ \A j \in EarlierInFile(cols, i) : cols[j].offset + cols[j].length <= cols[i].offset

\* Every range lies within its backing file, once written, and the last range
\* ends at the end of the file.
DataFits(cols) ==
  \A i \in DOMAIN cols :
    fs[cols[i].file].st = "complete" =>
      /\ cols[i].offset + cols[i].length <= FileLen(fs[cols[i].file])
      /\ LaterInFile(cols, i) = {}
           => cols[i].offset + cols[i].length = FileLen(fs[cols[i].file])

\* The entries with a maskoffset before the i-th, whatever their backing file.
EarlierMasked(cols, i) == {j \in 1..(i - 1) : "maskoffset" \in DOMAIN cols[j]}
Masked(cols) == {i \in DOMAIN cols : "maskoffset" \in DOMAIN cols[i]}

\* The mask ranges are disjoint, and in table order they start at 0 and each
\* starts where the one before it ends, across the backing files.
MaskLayout(cols) ==
  \A i \in Masked(cols) :
    /\ cols[i].maskoffset =
         IF EarlierMasked(cols, i) = {} THEN 0
         ELSE LET j == Max(EarlierMasked(cols, i))
              IN  cols[j].maskoffset + cols[j].length
    /\ \A j \in EarlierMasked(cols, i) :
         cols[j].maskoffset + cols[j].length <= cols[i].maskoffset

\* The mask ranges together are the boolean array written to mask.npy.
MaskFits(cols) ==
  (Masked(cols) # {} /\ fs[MaskFile].st = "complete") =>
    /\ fs[MaskFile].body.dtype = "bool"
    /\ LET j == Max(Masked(cols))
       IN  cols[j].maskoffset + cols[j].length = FileLen(fs[MaskFile])

\* C1. Commit visibility: in every state of a run of write calls on a
\* directory that did not hold bintable.json, crashed and failed calls
\* included, when bintable.json exists it is completely written and so is
\* every backing file its column entries name, and mask.npy when an entry has
\* a maskoffset: each is written and closed and holds the ranges the manifest
\* gives, to its end.
C1_CommitVisibility ==
  Exists(fs[Manifest]) =>
    /\ fs[Manifest].st = "complete"
    /\ \A f \in Referenced(fs[Manifest].body) : fs[f].st = "complete"
    /\ DataFits(fs[Manifest].body.columns)
    /\ MaskFits(fs[Manifest].body.columns)

\* A committed dataset whose manifest references the mask file and two more files.
C1_Witness ==
  /\ Exists(fs[Manifest])
  /\ MaskFile \in Referenced(fs[Manifest].body)
  /\ Cardinality(Referenced(fs[Manifest].body)) > 2

\* The positions of steps 3 to 5 of write: the temporary manifest, the mask
\* file and the backing files are opened and written.
Steps345 ==
  {"open_manifest", "write_manifest", "open_mask", "write_mask", "open_data", "write_data"}

\* An I/O operation of steps 3 to 5 of the call of writer p failed.
IoFailed(p) == w[p].pc = "failed" /\ w[p].err = "OSError" /\ w[p].at \in Steps345

\* C2 as stated. Failure before commit: after an I/O failure in steps 3 to 5
\* the call has created no bintable.json and the directory holds
\* bintable.json_.
C2_FailureLeavesTmp ==
  \A p \in Writers :
    IoFailed(p) => /\ fs[Manifest] = w[p].fs0[Manifest]
                   /\ Exists(fs[TmpManifest])

\* C2 as amended. After an I/O failure in steps 3 to 5 the call has created no
\* bintable.json, and the directory holds bintable.json_ unless the operation
\* that failed was the opening of bintable.json_ and the directory did not
\* hold that file before the call; then it holds none.
C2_FailureBeforeCommit ==
  \A p \in Writers :
    IoFailed(p) =>
      /\ fs[Manifest] = w[p].fs0[Manifest]
      /\ IF w[p].at = "open_manifest" /\ ~Exists(w[p].fs0[TmpManifest])
         THEN ~Exists(fs[TmpManifest])
         ELSE Exists(fs[TmpManifest])

\* A call failed while writing a backing file, after the mask file was written.
C2_Witness ==
  /\ IoFailed(1)
  /\ w[1].at = "write_data"
  /\ fs[MaskFile].st = "complete"
  /\ Exists(fs[TmpManifest])

\* A call was cut short by a crash or an I/O failure.
Interrupted(r) == r.out = "crashed" \/ (r.out = "failed" /\ r.err = "OSError")

\* The positions after step 2 (the directory exists) and before the rename
\* has happened.
AfterStep2 == Steps345 \cup {"rename"}

\* C3. Recovery after interruption: when a write to a path that did not exist
\* is interrupted after step 2 and before the rename, no bintable.json
\* exists, and the next write call to the path, itself undisturbed, runs to
\* completion and commits.
C3_Recovery ==
  \A p \in Writers :
    /\ ( /\ w[p].fresh
         /\ Interrupted([out |-> w[p].pc, err |-> w[p].err])
         /\ w[p].at \in AfterStep2 )
       => ~Exists(fs[Manifest])
    /\ ( /\ prev.fresh
         /\ Interrupted(prev)
         /\ prev.at \in AfterStep2
         /\ w[p].pc \in {"done", "failed"}
         /\ w[p].err # "OSError" )
       => w[p].pc = "done"

\* C4. Already-exists: a write call to a path that exists and holds no
\* bintable.json_ fails with FileExistsError, and at every step of the call,
\* and after it, the directory and its files are what they were before it.
C4_AlreadyExists ==
  \A p \in Writers :
    (w[p].pc # "idle" /\ w[p].dir0 /\ ~Exists(w[p].fs0[TmpManifest])) =>
      /\ fs = w[p].fs0
      /\ dirExists = w[p].dir0
      /\ w[p].pc \in {"exists", "exists_tmp", "crashed", "failed"}
      /\ w[p].pc = "failed" => w[p].err = "FileExistsError"

\* A call on a directory holding a foreign file has failed with FileExistsError.
C4_Witness ==
  /\ w[1].pc = "failed"
  /\ w[1].err = "FileExistsError"
  /\ Exists(fs[Foreign])
  /\ ~Exists(fs[TmpManifest])

\* The Python type of the values of a column of a table.
PyType(kind) == IF kind = "U" THEN "str" ELSE IF kind = "S" THEN "bytes" ELSE kind

\* A column read has the name, the mask, the valid values and the unit of a
\* column of the table written.
SameColumn(col, rc) ==
  /\ rc.name = col.name
  /\ rc.mask = col.mask
  /\ Len(rc.vals) = Len(col.data)
  /\ \A r \in DOMAIN col.data :
       ~col.mask[r] => rc.vals[r] = [t |-> PyType(col.kind), v |-> col.data[r]]
  /\ rc.unit = col.unit

SameTable(t, rt) ==
  /\ rt.masked = t.masked
  /\ rt.meta = t.meta
  /\ Len(rt.cols) = Len(t.cols)
  /\ \A c \in DOMAIN t.cols : SameColumn(t.cols[c], rt.cols[c])

\* C5. Round-trip: read(dir) after write(T, dir) to a path that did not exist
\* returns a table with T's column names in T's order, T's values, masks,
\* units, metadata and masked flag.
C5_RoundTrip ==
  rd.st = "full" => rd.full.ok /\ SameTable(w[1].table, rd.full.table)

\* The entries of the committed manifest.
Entries == fs[Manifest].body.columns

\* The names of the entries of the committed manifest.
EntryNames == {Entries[i].name : i \in DOMAIN Entries}

\* The column of that name in a table read.
ColumnNamed(t, n) == t.cols[CHOOSE c \in DOMAIN t.cols : t.cols[c].name = n]

\* The selective read returned the columns named, in the order named, each
\* equal to the column of its name in the full read.
SelectionAgrees ==
  /\ rd.sel.ok
  /\ Len(rd.sel.table.cols) = Len(rd.names)
  /\ \A i \in DOMAIN rd.names :
       /\ rd.sel.table.cols[i].name = rd.names[i]
       /\ rd.sel.table.cols[i] = ColumnNamed(rd.full.table, rd.names[i])

\* A selective read of a committed dataset by names of its manifest.
SelectiveRead ==
  /\ rd.st = "only"
  /\ rd.full.ok
  /\ \A i \in DOMAIN rd.names : rd.names[i] \in EntryNames

\* C6 as stated. Selective read equivalence, for any list of names of the
\* manifest.
C6_AnyList == SelectiveRead => SelectionAgrees

\* C6 as amended. Selective read equivalence, for any list of names of the
\* manifest in which no name occurs twice.
C6_SelectiveRead == (SelectiveRead /\ Distinct(rd.names)) => SelectionAgrees

\* Two columns, the first with a maskoffset, were read in reverse order.
C6_Witness ==
  /\ SelectiveRead
  /\ rd.names = <<ColNames[2], ColNames[1]>>
  /\ rd.sel.ok
  /\ "maskoffset" \in DOMAIN Entries[1]
  /\ "unit" \notin DOMAIN Entries[1]

\* C7. Data offset layout: in the manifest write produces, the ranges
\* [offset, offset + length) of the entries of one backing file are pairwise
\* disjoint, contiguous and gapless in table order from 0, each lies within
\* the elements written to the file and the last ends at the file's length.
C7_DataLayout ==
  \A m \in ManifestsWritten : DataLayout(m.columns) /\ DataFits(m.columns)

\* A dataset is committed in which a column starts at a non-zero offset of a
\* backing file that is written.
C7_Witness ==
  /\ w[1].pc = "done"
  /\ \E i \in DOMAIN Entries :
       Entries[i].offset > 0 /\ fs[Entries[i].file].st = "complete"

\* C8. Mask offset layout: in the manifest write produces, the ranges
\* [maskoffset, maskoffset + length) of the entries with a maskoffset are
\* pairwise disjoint, contiguous and gapless in table order from 0, with one
\* running offset for all backing files, and their total length is the length
\* of the boolean array written to mask.npy.
C8_MaskLayout ==
  \A m \in ManifestsWritten : MaskLayout(m.columns) /\ MaskFits(m.columns)

\* A dataset is committed in which two columns of different backing files have
\* masks, the second at a non-zero maskoffset.
C8_Witness ==
  /\ w[1].pc = "done"
  /\ fs[MaskFile].st = "complete"
  /\ \E i, j \in Masked(Entries) :
       /\ Entries[i].file # Entries[j].file
       /\ Entries[j].maskoffset > 0

\* The files a read call opened.
OpenedBy(res) == {res.opened[i] : i \in DOMAIN res.opened}

\* The columns of a table read whose manifest entry has no maskoffset have no
\* invalid entry.
NoMaskNoInvalid(res) ==
  res.ok =>
    \A i \in DOMAIN res.table.cols :
      "maskoffset" \notin DOMAIN EntryOf(Entries, res.table.cols[i].name)
        => \A r \in DOMAIN res.table.cols[i].mask : ~res.table.cols[i].mask[r]

\* A read call of these names opened mask.npy only if one of them has a
\* maskoffset.
MaskOpenedForMasked(res, names) ==
  MaskFile \in OpenedBy(res) =>
    \E n \in names \cap EntryNames : "maskoffset" \in DOMAIN EntryOf(Entries, n)

\* C9. No-mask default: a column whose manifest entry has no maskoffset is
\* read with no invalid entry, whether the dataset is masked or not, and
\* mask.npy is not opened for it: a read call opens mask.npy only when it reads
\* a column that has a maskoffset.
C9_NoMaskDefault ==
  /\ (rd.st \in {"full", "only"} /\ rd.full.ok) =>
       NoMaskNoInvalid(rd.full) /\ MaskOpenedForMasked(rd.full, EntryNames)
  /\ (rd.st = "only" /\ rd.full.ok) =>
       /\ NoMaskNoInvalid(rd.sel)
       /\ MaskOpenedForMasked(rd.sel, {rd.names[i] : i \in DOMAIN rd.names})

\* Of a masked dataset with a mask file, a column without a maskoffset was
\* read alone: it has no invalid entry and mask.npy was not opened.
C9_Witness ==
  /\ rd.st = "only"
  /\ rd.sel.ok
  /\ rd.sel.table.masked
  /\ Len(rd.names) = 1
  /\ "maskoffset" \notin DOMAIN EntryOf(Entries, rd.names[1])
  /\ Masked(Entries) # {}
  /\ fs[MaskFile].st = "complete"
  /\ Len(rd.sel.table.cols[1].mask) > 0
  /\ MaskFile \notin OpenedBy(rd.sel)

\* C10. Lookup failure: a read with only_columns holding a name that is no
\* entry's raises KeyError, returns no table, and has opened the manifest
\* only: no backing file and no mask file.
C10_LookupFailure ==
  ( /\ rd.st = "only"
    /\ rd.full.ok
    /\ \E i \in DOMAIN rd.names : rd.names[i] \notin EntryNames )
  => /\ ~rd.sel.ok
     /\ rd.sel.err = "KeyError"
     /\ "table" \notin DOMAIN rd.sel
     /\ rd.sel.opened = <<Manifest>>

\* An existing column was named before the missing one.
C10_Witness ==
  /\ rd.st = "only"
  /\ rd.full.ok
  /\ Len(rd.names) = 2
  /\ rd.names[1] \in EntryNames
  /\ rd.names[2] = AbsentName
  /\ rd.sel.err = "KeyError"

(* C11 *)

\* A step that is a read call: it records its outcome.
ReadCall == rd' # rd

\* C11: a read call, whether it returns a table or raises, and whatever its
\* only_columns, leaves every file of the directory as it was, and the
\* directory itself: no file is created, removed, truncated or rewritten.
C11_ReadNonMutating ==
  [][ReadCall => (fs' = fs /\ dirExists' = dirExists)]_vars

\* A dataset was read in full; a read with only_columns then failed after it
\* had opened backing files; the files of the dataset are all there.
C11_Witness ==
  /\ rd.st = "only"
  /\ rd.full.ok
  /\ rd.sel.err = "ValueError"
  /\ Len(rd.sel.opened) > 1
  /\ fs[Manifest].st = "complete"
  /\ \A f \in Referenced(fs[Manifest].body) : fs[f].st = "complete"

(* C12 *)

\* The table has a column that is not text and whose type descriptor carries
\* a byte-order marker.
Marked(table) ==
  \E c \in DOMAIN table.cols :
    ~IsText(table.cols[c].kind) /\ table.cols[c].kind \in EndianKinds

\* C12: a write of a table that has a non-text column whose type descriptor
\* carries an endianness marker ("<" or ">") creates and modifies nothing, the
\* directory included, and ends with an assertion failure.
C12_EndiannessAbort ==
  \A p \in Writers :
    (w[p].pc # "idle" /\ Marked(w[p].table)) =>
      /\ dirExists = w[p].dir0
      /\ fs = w[p].fs0
      /\ w[p].pc \in Ended => (w[p].pc = "failed" /\ w[p].err = "AssertionError")

(* C13 *)

\* The names of the backing files.
DataFileNames == {FileName(StorageKey(k)) : k \in Kinds \cup EndianKinds}

\* C13: in a committed directory mask.npy is present only if the manifest has
\* masked = true and a column with invalid entries (a maskoffset), and a
\* backing file (data.text.json, data.<key>.npy) is present only if a column
\* of the manifest is stored in it.
C13_FilePresence ==
  fs[Manifest].st = "complete" =>
    LET m == fs[Manifest].body IN
      /\ Exists(fs[MaskFile]) => (m.masked /\ Masked(m.columns) # {})
      /\ \A f \in DataFileNames :
           Exists(fs[f]) => \E c \in DOMAIN m.columns : m.columns[c].file = f

(* C14 *)

\* The column has an invalid entry in a masked table.
HasInvalid(table, col) == table.masked /\ \E r \in DOMAIN col.mask : col.mask[r]

\* The masks of the columns of a table that have an invalid entry, in the
\* order of the columns.
RECURSIVE InvalidMasks(_, _)
InvalidMasks(table, k) ==
  IF k = 0 THEN <<>>
  ELSE IF HasInvalid(table, table.cols[k])
       THEN Append(InvalidMasks(table, k - 1), table.cols[k].mask)
       ELSE InvalidMasks(table, k - 1)

\* C14: write gives the entry of a column a maskoffset, and appends the whole
\* mask of the column (one flag per row) to the mask buffer, exactly when the
\* table is masked and the column has an invalid entry; mask.npy is written
\* exactly when some entry has a maskoffset, and holds the buffer.
C14_MaskEntries ==
  \A p \in Writers :
    w[p].pc \in Running \cup {"done", "failed"} =>
      LET table == w[p].table
          plan  == w[p].plan
      IN  /\ \A c \in DOMAIN table.cols :
               ("maskoffset" \in DOMAIN plan.columns[c])
                 <=> HasInvalid(table, table.cols[c])
          /\ plan.maskdatas = InvalidMasks(table, Len(table.cols))
          /\ w[p].pc \in {"done", "failed"} =>
               /\ Exists(fs[MaskFile]) <=> Masked(plan.columns) # {}
               /\ Exists(fs[MaskFile]) =>
                    fs[MaskFile] = Complete(NpyBody("bool", Concatenate(plan.maskdatas)))

\* A masked table of two columns, one with an invalid entry and one without,
\* was written: one entry has a maskoffset, and mask.npy is there.
C14_Witness ==
  /\ w[1].pc = "done"
  /\ w[1].table.masked
  /\ Len(w[1].table.cols) = 2
  /\ Cardinality(Masked(w[1].plan.columns)) = 1
  /\ \E c \in 1..2 : w[1].table.cols[c].mask = <<TRUE>>
  /\ \E c \in 1..2 : w[1].table.cols[c].mask = <<FALSE>>
  /\ fs[MaskFile].st = "complete"

(* C15 *)

\* C15: within one read call every backing file is opened at most once,
\* however many selected columns are stored in it and in whatever order they
\* are listed, and mask.npy is opened at most once, however many selected
\* columns have a maskoffset.
C15_OpenOnce ==
  /\ rd.st \in {"full", "only"} => Distinct(rd.full.opened)
  /\ rd.st = "only" => Distinct(rd.sel.opened)

\* Two columns stored in one backing file, both with a maskoffset, were read
\* in the reverse of their order in the manifest: the backing file and
\* mask.npy were opened, once each.
C15_Witness ==
  /\ rd.st = "only"
  /\ rd.sel.ok
  /\ Len(Entries) = 2
  /\ rd.names = <<Entries[2].name, Entries[1].name>>
  /\ Entries[1].file = Entries[2].file
  /\ Masked(Entries) = {1, 2}
  /\ rd.sel.opened = <<Manifest, Entries[1].file, MaskFile>>

(* C16 *)

\* The files a read call of these names may open: the manifest, the backing
\* files of the entries named, and mask.npy if one of them has a maskoffset.
Needed(names) ==
  LET named == {EntryOf(Entries, n) : n \in names \cap EntryNames}
  IN  {Manifest} \cup {e.file : e \in named}
        \cup (IF \E e \in named : "maskoffset" \in DOMAIN e THEN {MaskFile} ELSE {})

\* C16: read(dir, only_columns=L) opens only the manifest, the backing files of
\* the entries of the columns in L, and mask.npy only if a column in L has a
\* maskoffset: a file that only columns outside L are stored in is not opened.
C16_Pushdown ==
  rd.st = "only" => OpenedBy(rd.sel) \subseteq Needed({rd.names[i] : i \in DOMAIN rd.names})

\* Of two columns stored in different files, the first with a maskoffset, only
\* the second was asked for: its file alone was opened besides the manifest.
C16_Witness ==
  /\ rd.st = "only"
  /\ rd.sel.ok
  /\ Len(Entries) = 2
  /\ Entries[1].file # Entries[2].file
  /\ Masked(Entries) = {1}
  /\ rd.names = <<Entries[2].name>>
  /\ rd.sel.opened = <<Manifest, Entries[2].file>>

(* C17 *)

\* C17: every file handle and memory map acquired by a read or write call is
\* released on every exit path: when a write call has ended, by return or by
\* exception, no file it opened is open, and when a read call has ended, by
\* return or by exception, no memory map it made is still mapped.
C17_ResourceRelease ==
  /\ \A p \in Writers : w[p].pc \in {"done", "failed"} => w[p].open = {}
  /\ rd.st \in {"full", "only"} => rd.held = {}

(* C18 *)

\* The committed manifest and every file it references are as the call of
\* process p wrote them.
Intact(p) ==
  /\ w[p].pc = "done"
  /\ fs[Manifest] = Complete(ManifestBody(w[p].table, w[p].plan))
  /\ \A i \in DOMAIN w[p].plan.datafiles :
       fs[w[p].plan.datafiles[i].name] = Complete(DataBody(w[p].plan.datafiles[i]))
  /\ w[p].plan.maskdatas # <<>> =>
       fs[MaskFile] = Complete(NpyBody("bool", Concatenate(w[p].plan.maskdatas)))

\* bintable.json is there, and it or a file it references is missing,
\* incomplete or not what the call that wrote the manifest wrote.
Torn == Exists(fs[Manifest]) /\ ~ \E p \in DOMAIN w : Intact(p)

\* The positions of a call that has created the temporary manifest and not
\* yet renamed it.
Writing == IoSteps \ {"mkdir", "open_manifest"}

\* C18: the existence check does not keep a second writer out: whenever one
\* call is at the check while another call is writing, the check finds the
\* temporary manifest and lets it on. The torn state (bintable.json committed
\* with a file it references missing, incomplete or holding another call's
\* payload) comes from that alone: it is reached only by calls that ran at the
\* same time, and it is reached (the witness).
C18_ConcurrentUnsafe ==
  /\ \A p, q \in DOMAIN w :
       (p # q /\ w[p].pc = "exists_tmp" /\ w[q].pc \in Writing) => LooksInProgress(fs)
  /\ Torn => \A p \in DOMAIN w : w[p].pc # "idle" /\ ~w[p].alone

\* Two calls of different tables ran at the same time; the first committed
\* its manifest, and a backing file the manifest references holds what the
\* second wrote.
C18_Witness ==
  /\ w[1].pc = "done"
  /\ w[1].table # w[2].table
  /\ fs[Manifest] = Complete(ManifestBody(w[1].table, w[1].plan))
  /\ \E i \in DOMAIN w[1].plan.datafiles, j \in DOMAIN w[2].plan.datafiles :
       /\ w[1].plan.datafiles[i].name = w[2].plan.datafiles[j].name
       /\ fs[w[1].plan.datafiles[i].name] = Complete(DataBody(w[2].plan.datafiles[j]))
       /\ DataBody(w[1].plan.datafiles[i]) # DataBody(w[2].plan.datafiles[j])

(* C19 *)

\* The call of process p began when bintable.json was there.
AfterCommit(p) == w[p].pc # "idle" /\ Exists(w[p].fs0[Manifest])

\* C19: in write calls made one after the other on one path, any of which may
\* complete, fail on I/O or be killed at any step: bintable.json and
\* bintable.json_ are never both there; once bintable.json is there no step
\* changes a file or the directory, so the manifest and the files it
\* references stay as they were at the commit; and a call begun after the
\* commit, when it ends by itself, has raised FileExistsError.
C19_Immutable ==
  /\ [](~(Exists(fs[Manifest]) /\ Exists(fs[TmpManifest])))
  /\ [][Exists(fs[Manifest]) => (fs' = fs /\ dirExists' = dirExists)]_vars
  /\ [](\A p \in Writers :
          AfterCommit(p) =>
            /\ fs = w[p].fs0
            /\ w[p].pc \in {"done", "failed"} =>
                 (w[p].pc = "failed" /\ w[p].err = "FileExistsError"))

\* A dataset was committed with its backing files and its mask file; a write
\* call of another table made afterwards has failed with FileExistsError, and
\* the files are those of the commit.
C19_Witness ==
  /\ AfterCommit(1)
  /\ w[1].pc = "failed"
  /\ w[1].err = "FileExistsError"
  /\ fs[Manifest].st = "complete"
  /\ fs[MaskFile].st = "complete"
  /\ fs[Manifest].body # ManifestBody(w[1].table, w[1].plan)
  /\ fs = w[1].fs0

====
